---- MODULE Spec2Model ----
(***************************************************************************)
(* A model of the boid prototype: the BoidPlugin of src/src/boids.rs (its  *)
(* systems, events, resources and deferred commands), the cursor system of *)
(* src/src/input.rs, and the Boid component of src/src/game.rs.            *)
(*                                                                         *)
(* One frame ("tick") runs every system of the Update stage once, in any   *)
(* order the `.before` constraints allow; `ran` holds the systems that     *)
(* have run in the current frame.  Commands are deferred: they are queued  *)
(* by the systems and applied when the stage ends.                         *)
(*                                                                         *)
(* Numbers.  f32 values are modelled in fixed point: a position or a       *)
(* velocity is a whole number of world units, a steering value a whole     *)
(* number of 1/Scale units, and every operation rounds toward zero.  A     *)
(* vector is [nan, x, y]; nan marks a vector whose components are NaN,     *)
(* and every operation on a NaN vector yields a NaN vector.                *)
(***************************************************************************)
EXTENDS Integers, Sequences, FiniteSets, TLC

VARIABLES
    boids,            \* the Boid entities, in spawn order: [pos, vel, steering, tags]
    mouse,            \* Res<MousePosition>
    stance,           \* Res<PlayerStance>
    avoidanceFactor,  \* Res<AvoidanceFactor>
    spawnEvents,      \* Events<BoidSpawned> not yet read by spawn_system
    stanceEvents,     \* Events<StanceChanged> not yet read by behaviour_system
    cmds,             \* the deferred Commands of each system, by system
    ran,              \* the systems that have run in the current frame
    hist,             \* history of the stance input (toggles, pressPop)
    tick,             \* history of the current frame's steering pipeline
    game,             \* the Boid of game.rs and the history of its last wander
    shots,            \* Events<Shoot>, the bullets, the collision events read
    pause             \* PauseState, NextState, the physics clock and the keys

vars == <<boids, mouse, stance, avoidanceFactor, spawnEvents, stanceEvents,
          cmds, ran, hist, tick, game, shots, pause>>

(***************************************************************************)
(* Program constants (src/src/boids.rs 14-19).                             *)
(***************************************************************************)
BOID_SPEED == 250
BOID_SIZE == 10
BOID_STEERING_FORCE_PCT == 75
BOID_SLOWING_RADIUS == 100
BOID_AVOIDANCE_FACTOR == 100
MAX_AVOIDANCE == 10000

(***************************************************************************)
(* Bounds of the model.                                                    *)
(***************************************************************************)
MaxBoids == 2
MaxScrollEvents == 2
MaxGameFrames == 4

\* Fixed-point resolution of a steering value: units per 1.0.
Scale == 10 * 10

\* World positions the pointer visits (and so the positions boids spawn at).
Points == { [x |-> 0, y |-> 0], [x |-> 10, y |-> 0], [x |-> 120, y |-> 160] }

\* MouseWheel.y values of one scroll signal.
ScrollValues == { -100, 100 }

(***************************************************************************)
(* Arithmetic.                                                             *)
(***************************************************************************)
Abs(a) == IF a < 0 THEN -a ELSE a

Sgn(a) == IF a < 0 THEN -1 ELSE IF a > 0 THEN 1 ELSE 0

\* Division rounding toward zero.
TDiv(a, b) == Sgn(a) * Sgn(b) * (Abs(a) \div Abs(b))

RECURSIVE SqrtSearch(_, _, _)
SqrtSearch(n, lo, hi) ==
    IF lo >= hi THEN lo
    ELSE LET mid == (lo + hi + 1) \div 2
         IN  IF mid * mid <= n THEN SqrtSearch(n, mid, hi)
                               ELSE SqrtSearch(n, lo, mid - 1)

\* floor(sqrt(n)); 46340 is the largest root of a 32-bit square.
ISqrt(n) == SqrtSearch(n, 0, IF n < 46340 THEN n ELSE 46340)

CeilSqrt(n) == LET r == ISqrt(n) IN IF r * r = n THEN r ELSE r + 1

(***************************************************************************)
(* Vectors (glam Vec2).                                                    *)
(***************************************************************************)
Vec(a, b) == [nan |-> FALSE, x |-> a, y |-> b]

ZERO == Vec(0, 0)

NaNVec == [nan |-> TRUE, x |-> 0, y |-> 0]

OfPoint(p) == Vec(p.x, p.y)

VAdd(u, v) == IF u.nan \/ v.nan THEN NaNVec ELSE Vec(u.x + v.x, u.y + v.y)

VSub(u, v) == IF u.nan \/ v.nan THEN NaNVec ELSE Vec(u.x - v.x, u.y - v.y)

VNeg(u) == IF u.nan THEN NaNVec ELSE Vec(-u.x, -u.y)

LengthSquared(u) == u.x * u.x + u.y * u.y

\* u / |u| in 1/Scale units, for a finite non-zero u.
Unit(u) ==
    LET n == LengthSquared(u)
    IN  Vec(Sgn(u.x) * ISqrt((u.x * u.x * Scale * Scale) \div n),
            Sgn(u.y) * ISqrt((u.y * u.y * Scale * Scale) \div n))

\* Vec2::normalize: self * (1 / length); the zero vector gives 0 * inf = NaN.
Normalize(u) ==
    IF u.nan \/ LengthSquared(u) = 0 THEN NaNVec ELSE Unit(u)

\* Vec2::normalize_or_zero: zero unless 1 / length is finite and positive.
NormalizeOrZero(u) ==
    IF u.nan \/ LengthSquared(u) = 0 THEN ZERO ELSE Unit(u)

\* |u| in 1/Scale units, for a finite u.
LengthFixed(u) == ISqrt(LengthSquared(u) * Scale * Scale)

(***************************************************************************)
(* Entities and the systems of the frame.                                  *)
(***************************************************************************)
NewBoid(p) ==
    [pos |-> p, vel |-> ZERO, steering |-> ZERO, tags |-> {"Boid", "Avoid", "Seek"}]

Entities == 1..Len(boids)

\* Query<..., With<tag>>: the entities carrying the tag, in storage order.
With(tag) == { i \in Entities : tag \in boids[i].tags }

NoCommands == [behaviour |-> <<>>, spawn |-> <<>>, cursor |-> <<>>]

Opposite(s) == IF s = "Follow" THEN "Evade" ELSE "Follow"

Run(system) == ran' = ran \cup {system}

NotRun(system) == system \notin ran

(***************************************************************************)
(* Input systems.                                                          *)
(***************************************************************************)
\* The pointer is inside the window at some world position, or outside it;
\* the new MousePosition is inserted through Commands, so it is seen from
\* the next frame on.
cursor_system ==
    /\ NotRun("cursor_system")
    /\ \E inside \in BOOLEAN, p \in Points :
          cmds' = [cmds EXCEPT !.cursor = IF inside THEN <<p>> ELSE <<>>]
    /\ Run("cursor_system")
    /\ UNCHANGED <<boids, mouse, stance, avoidanceFactor, spawnEvents,
                   stanceEvents, hist, tick, game, shots, pause>>

\* Entities alive or on their way (event sent, or spawn command queued).
Population == Len(boids) + Len(spawnEvents) + Len(cmds.spawn)

input_spawn_system ==
    /\ NotRun("input_spawn_system")
    /\ \E just_pressed \in BOOLEAN :
          /\ just_pressed => Population < MaxBoids
          /\ spawnEvents' = IF just_pressed THEN Append(spawnEvents, mouse)
                                            ELSE spawnEvents
          /\ hist' = IF just_pressed
                     THEN [hist EXCEPT !.sent = Append(@, mouse)]
                     ELSE hist
    /\ Run("input_spawn_system")
    /\ UNCHANGED <<boids, mouse, stance, avoidanceFactor, stanceEvents, cmds,
                   tick, game, shots, pause>>

input_stance_system ==
    /\ NotRun("input_stance_system")
    /\ \E just_pressed \in BOOLEAN :
          /\ stanceEvents' = IF just_pressed
                             THEN Append(stanceEvents, Opposite(stance))
                             ELSE stanceEvents
          /\ hist' = IF just_pressed
                     THEN [hist EXCEPT !.toggles = (@ + 1) % 2,
                                       !.pressPop = Len(boids)]
                     ELSE hist
    /\ Run("input_stance_system")
    /\ UNCHANGED <<boids, mouse, stance, avoidanceFactor, spawnEvents, cmds,
                   tick, game, shots, pause>>

(***************************************************************************)
(* behaviour_system and spawn_system queue commands.                       *)
(***************************************************************************)
RECURSIVE TagCommands(_, _, _)
\* for entity in &query { remove::<drop>(); insert(add); }
TagCommands(n, drop, add) ==
    IF n = 0 THEN <<>>
    ELSE TagCommands(n - 1, drop, add)
         \o << [op |-> "remove", entity |-> n, tag |-> drop],
               [op |-> "insert", entity |-> n, tag |-> add] >>

RECURSIVE InsertCommands(_, _)
InsertCommands(n, add) ==
    IF n = 0 THEN <<>>
    ELSE InsertCommands(n - 1, add)
         \o << [op |-> "insert", entity |-> n, tag |-> add] >>

\* A behaviour_system that inserts the new tag and forgets to remove the old.
StanceCommandsInsertOnly(event, n) ==
    IF event = "Follow" THEN InsertCommands(n, "Seek")
                        ELSE InsertCommands(n, "Flee")

\* One StanceChanged event: the commands it queues for the queried entities.
StanceCommands(event, n) ==
    IF event = "Follow" THEN TagCommands(n, "Flee", "Seek")
                        ELSE TagCommands(n, "Seek", "Flee")

RECURSIVE BehaviourCommands(_, _)
BehaviourCommands(events, n) ==
    IF events = <<>> THEN <<>>
    ELSE StanceCommands(Head(events), n) \o BehaviourCommands(Tail(events), n)

behaviour_system ==
    /\ NotRun("behaviour_system")
    /\ cmds' = [cmds EXCEPT !.behaviour =
                   @ \o BehaviourCommands(stanceEvents, Len(boids))]
    /\ stance' = IF stanceEvents = <<>> THEN stance
                 ELSE stanceEvents[Len(stanceEvents)]
    /\ stanceEvents' = <<>>
    /\ Run("behaviour_system")
    /\ UNCHANGED <<boids, mouse, avoidanceFactor, spawnEvents, hist, tick, game, shots, pause>>

spawn_system ==
    /\ NotRun("spawn_system")
    /\ cmds' = [cmds EXCEPT !.spawn = @ \o spawnEvents]
    /\ spawnEvents' = <<>>
    /\ Run("spawn_system")
    /\ UNCHANGED <<boids, mouse, stance, avoidanceFactor, stanceEvents, hist,
                   tick, game, shots, pause>>

(***************************************************************************)
(* The end of the stage: the queued commands are applied.                  *)
(***************************************************************************)
ApplyTag(b, c) ==
    IF c.op = "remove" THEN [b EXCEPT !.tags = @ \ {c.tag}]
                       ELSE [b EXCEPT !.tags = @ \cup {c.tag}]

RECURSIVE ApplyTagCommands(_, _)
ApplyTagCommands(bs, cs) ==
    IF cs = <<>> THEN bs
    ELSE ApplyTagCommands(
             [bs EXCEPT ![Head(cs).entity] = ApplyTag(@, Head(cs))], Tail(cs))

\* A spawn that inserts the bundle of every command twice.
RECURSIVE ApplySpawnCommandsTwice(_, _)
ApplySpawnCommandsTwice(bs, cs) ==
    IF cs = <<>> THEN bs
    ELSE ApplySpawnCommandsTwice(
             Append(Append(bs, NewBoid(Head(cs))), NewBoid(Head(cs))), Tail(cs))

RECURSIVE ApplySpawnCommands(_, _)
ApplySpawnCommands(bs, cs) ==
    IF cs = <<>> THEN bs
    ELSE ApplySpawnCommands(Append(bs, NewBoid(Head(cs))), Tail(cs))

ApplyBuffers ==
    /\ boids' = ApplySpawnCommands(ApplyTagCommands(boids, cmds.behaviour),
                                   cmds.spawn)
    /\ mouse' = IF cmds.cursor = <<>> THEN mouse ELSE cmds.cursor[1]
    /\ cmds' = NoCommands

LifecycleSystems ==
    {"cursor_system", "input_spawn_system", "input_stance_system",
     "behaviour_system", "spawn_system"}

EndLifecycleFrame ==
    /\ ran = LifecycleSystems
    /\ ApplyBuffers
    /\ ran' = {}
    /\ UNCHANGED <<stance, avoidanceFactor, spawnEvents, stanceEvents, hist,
                   tick, game, shots, pause>>

NoTick == [contrib |-> <<>>, integrated |-> <<>>, oldVel |-> <<>>, avoidLog |-> <<>>]

NoGame ==
    [steering |-> ZERO, velocity |-> ZERO, prev |-> ZERO, out |-> ZERO,
     frames |-> 1]

\* No Shoot event, no bullet, no collision event read.
NoShots ==
    [shootEvents |-> <<>>, sent |-> 0, cmds |-> <<>>, bullets |-> <<>>,
     collisions |-> <<>>, boidShot |-> <<>>]

\* PauseState::Running (the #[default]), no transition queued, clock running.
NoPause ==
    [state |-> "Running", next |-> "None", clockPaused |-> FALSE,
     elapsed |-> 0, keys |-> {}, presses |-> 0, before |-> 0]

Init ==
    /\ boids = <<>>
    /\ mouse = [x |-> 0, y |-> 0]
    /\ stance = "Follow"
    /\ avoidanceFactor = BOID_AVOIDANCE_FACTOR
    /\ spawnEvents = <<>>
    /\ stanceEvents = <<>>
    /\ cmds = NoCommands
    /\ ran = {}
    /\ hist = [toggles |-> 0, pressPop |-> 0, sent |-> <<>>]
    /\ tick = NoTick
    /\ game = NoGame
    /\ shots = NoShots
    /\ pause = NoPause

Next ==
    \/ cursor_system
    \/ input_spawn_system
    \/ input_stance_system
    \/ behaviour_system
    \/ spawn_system
    \/ EndLifecycleFrame

\* The entity and stance side of the BoidPlugin: spawn, stance, commands.
Spec == Init /\ [][Next]_vars

(***************************************************************************)
(* The steering pipeline: four contributors add into every boid's Steering *)
(* and movement_system integrates it.                                      *)
(***************************************************************************)
Contributors ==
    {"seek_system", "wander_system", "flee_system", "avoidance_system"}

\* A schedule without the ordering constraints.
MovementAnyTime == TRUE

\* .before(movement_system) on each contributor.
MovementReady == Contributors \subseteq ran

\* v * (mul / div), component by component.
ScaleDiv(v, mul, div) ==
    IF v.nan THEN NaNVec ELSE Vec(TDiv(v.x * mul, div), TDiv(v.y * mul, div))

\* steering.0 += f[i], for every boid.
AddSteering(bs, f) ==
    [i \in DOMAIN bs |-> [bs[i] EXCEPT !.steering = VAdd(@, f[i])]]

Record(system, f) == tick' = [tick EXCEPT !.contrib[system] = f]

\* A seek that never slows down inside the slowing radius.
SeekForceNoSlowing(position, target) ==
    NormalizeOrZero(VSub(OfPoint(target), OfPoint(position)))

\* The body of seek_system's loop: the value added to steering.
SeekForce(position, target) ==
    LET path_to_target == VSub(OfPoint(target), OfPoint(position))
        desired_velocity == NormalizeOrZero(path_to_target)
    IN  IF LengthSquared(path_to_target)
              <= BOID_SLOWING_RADIUS * BOID_SLOWING_RADIUS
        THEN LET arrival_force ==
                     TDiv(LengthFixed(path_to_target), BOID_SLOWING_RADIUS)
             IN  ScaleDiv(desired_velocity, arrival_force, Scale)
        ELSE desired_velocity

seek_system ==
    /\ NotRun("seek_system")
    /\ LET f == [i \in Entities |->
                    IF i \in With("Seek") THEN SeekForce(boids[i].pos, mouse)
                                          ELSE ZERO]
       IN  boids' = AddSteering(boids, f) /\ Record("seek_system", f)
    /\ Run("seek_system")
    /\ UNCHANGED <<mouse, stance, avoidanceFactor, spawnEvents, stanceEvents,
                   cmds, hist, game, shots, pause>>

\* The body of flee_system's loop: the value added to steering.
FleeForce(position, target) ==
    LET path_to_target == VSub(OfPoint(position), OfPoint(target))
        desired_velocity == NormalizeOrZero(path_to_target)
    IN  IF LengthSquared(path_to_target)
              >= BOID_SLOWING_RADIUS * BOID_SLOWING_RADIUS
        THEN LET arrival_force ==
                     TDiv(BOID_SLOWING_RADIUS * Scale * Scale,
                          LengthFixed(path_to_target))
             IN  ScaleDiv(desired_velocity, arrival_force, Scale)
        ELSE desired_velocity

flee_system ==
    /\ NotRun("flee_system")
    /\ LET f == [i \in Entities |->
                    IF i \in With("Flee") THEN FleeForce(boids[i].pos, mouse)
                                          ELSE ZERO]
       IN  boids' = AddSteering(boids, f) /\ Record("flee_system", f)
    /\ Run("flee_system")
    /\ UNCHANGED <<mouse, stance, avoidanceFactor, spawnEvents, stanceEvents,
                   cmds, hist, game, shots, pause>>

\* random_number(-2 PI, 2 PI), as a number of quarter turns.
QuarterTurns == {0, 1, 2, 3}

\* Quat::from_rotation_z(random) applied to Vec3::Y * (BOID_SPEED / 4).
WanderingForce(turns) ==
    LET r == BOID_SPEED \div 4
    IN  CASE turns = 0 -> Vec(0, r)
          [] turns = 1 -> Vec(-r, 0)
          [] turns = 2 -> Vec(0, -r)
          [] OTHER     -> Vec(r, 0)

\* The body of wander_system's loop: the value added to steering.
WanderForce(velocity, turns) ==
    LET circle_center == ScaleDiv(NormalizeOrZero(velocity), BOID_SPEED, Scale)
    IN  Normalize(VAdd(circle_center, WanderingForce(turns)))

wander_system ==
    /\ NotRun("wander_system")
    /\ \E turns \in [With("Wander") -> QuarterTurns] :
          LET f == [i \in Entities |->
                       IF i \in With("Wander")
                       THEN WanderForce(boids[i].vel, turns[i])
                       ELSE ZERO]
          IN  boids' = AddSteering(boids, f) /\ Record("wander_system", f)
    /\ Run("wander_system")
    /\ UNCHANGED <<mouse, stance, avoidanceFactor, spawnEvents, stanceEvents,
                   cmds, hist, game, shots, pause>>

RECURSIVE SortedSeq(_)
SortedSeq(S) ==
    IF S = {} THEN <<>>
    ELSE LET m == CHOOSE x \in S : \A y \in S : x <= y
         IN  <<m>> \o SortedSeq(S \ {m})

RECURSIVE Combinations(_)
\* iter_combinations_mut::<2>: every 2-combination of the query, once.
Combinations(q) ==
    IF Len(q) < 2 THEN <<>>
    ELSE [k \in 1..(Len(q) - 1) |-> <<q[1], q[k + 1]>>] \o Combinations(Tail(q))

\* (-vector.normalize() / distance) * avoidance_factor
AvoidanceForce(position, other_position, factor) ==
    LET vector == VSub(OfPoint(other_position), OfPoint(position))
        distance == LengthSquared(vector)
    IN  ScaleDiv(VNeg(Normalize(vector)), factor, distance)

\* An avoidance_system that pushes both members of a pair the same way.
OtherForceSameSign(avoidance_force) == avoidance_force

\* The force avoidance_system adds to the second member of a pair.
OtherForce(avoidance_force) == VNeg(avoidance_force)

RECURSIVE AvoidPairs(_, _, _)
\* The loop of avoidance_system over the pairs; acc = [bs, delta, log].
AvoidPairs(pairs, acc, factor) ==
    IF pairs = <<>> THEN acc
    ELSE LET a == Head(pairs)[1]
             b == Head(pairs)[2]
             force == AvoidanceForce(acc.bs[a].pos, acc.bs[b].pos, factor)
             other == OtherForce(force)
         IN  AvoidPairs(Tail(pairs),
                 [bs    |-> [acc.bs EXCEPT ![a].steering = VAdd(@, force),
                                           ![b].steering = VAdd(@, other)],
                  delta |-> [acc.delta EXCEPT ![a] = VAdd(@, force),
                                              ![b] = VAdd(@, other)],
                  log   |-> Append(acc.log,
                                [a |-> a, b |-> b, fa |-> force, fb |-> other])],
                 factor)

avoidance_system ==
    /\ NotRun("avoidance_system")
    /\ LET end == AvoidPairs(Combinations(SortedSeq(With("Avoid"))),
                             [bs |-> boids,
                              delta |-> [i \in Entities |-> ZERO],
                              log |-> <<>>],
                             avoidanceFactor)
       IN  /\ boids' = end.bs
           /\ tick' = [tick EXCEPT !.contrib["avoidance_system"] = end.delta,
                                   !.avoidLog = end.log]
    /\ Run("avoidance_system")
    /\ UNCHANGED <<mouse, stance, avoidanceFactor, spawnEvents, stanceEvents,
                   cmds, hist, game, shots, pause>>

\* steering.0 * BOID_STEERING_FORCE * BOID_SPEED
SteerForce(steering) ==
    ScaleDiv(steering, BOID_STEERING_FORCE_PCT * BOID_SPEED, 100 * Scale)

\* A movement_system that adds the scaled steering itself to the velocity.
DesiredVelocityIsSteerForce(steer_force, linvel) == steer_force

\* let desired_velocity = steer_force - velocity.linvel;
DesiredVelocity(steer_force, linvel) == VSub(steer_force, linvel)

\* A clamp of each axis to [-max, max].
ClampPerAxis(v, max) ==
    IF v.nan THEN v
    ELSE Vec(IF Abs(v.x) > max THEN Sgn(v.x) * max ELSE v.x,
             IF Abs(v.y) > max THEN Sgn(v.y) * max ELSE v.y)

\* Vec2::clamp_length_max: if length_squared > max * max then
\* max * (self / length) else self.  A NaN length compares false.
ClampLengthMax(v, max) ==
    IF v.nan THEN v
    ELSE IF LengthSquared(v) > max * max
         THEN ScaleDiv(v, max, CeilSqrt(LengthSquared(v)))
         ELSE v

\* The new linvel of one boid.
Integrate(steering, linvel) ==
    LET steer_force == SteerForce(steering)
        desired_velocity == DesiredVelocity(steer_force, linvel)
    IN  ClampLengthMax(VAdd(linvel, desired_velocity), BOID_SPEED)

\* transform.rotation is set from the new linvel; no other system reads it,
\* and the model does not keep it.
movement_system ==
    /\ NotRun("movement_system")
    /\ MovementReady
    /\ boids' = [i \in Entities |->
                    IF i \in With("Boid")
                    THEN [boids[i] EXCEPT
                              !.vel = Integrate(boids[i].steering, boids[i].vel),
                              !.steering = ZERO]
                    ELSE boids[i]]
    /\ tick' = [tick EXCEPT !.integrated = [i \in Entities |-> boids[i].steering],
                            !.oldVel = [i \in Entities |-> boids[i].vel]]
    /\ Run("movement_system")
    /\ UNCHANGED <<mouse, stance, avoidanceFactor, spawnEvents, stanceEvents,
                   cmds, hist, game, shots, pause>>

\* f32::clamp with only its upper limit.
ClampUpperOnly(v, lo, hi) == IF v > hi THEN hi ELSE v

\* f32::clamp
Clamp(v, lo, hi) == IF v < lo THEN lo ELSE IF v > hi THEN hi ELSE v

RECURSIVE Scroll(_, _)
\* for event in events.iter() { factor += event.y * 100.; factor = clamp }
Scroll(factor, events) ==
    IF events = <<>> THEN factor
    ELSE Scroll(Clamp(factor + Head(events) * 100, 0, MAX_AVOIDANCE),
                Tail(events))

input_avoidance_system ==
    /\ NotRun("input_avoidance_system")
    /\ \E n \in 0..MaxScrollEvents :
          \E events \in [1..n -> ScrollValues] :
              avoidanceFactor' = Scroll(avoidanceFactor, events)
    /\ Run("input_avoidance_system")
    /\ UNCHANGED <<boids, mouse, stance, spawnEvents, stanceEvents, cmds,
                   hist, tick, game, shots, pause>>

SteerSystems == Contributors \cup {"movement_system", "input_avoidance_system"}

FreshTick(n) ==
    [contrib    |-> [s \in Contributors |-> [i \in 1..n |-> ZERO]],
     integrated |-> [i \in 1..n |-> ZERO],
     oldVel     |-> [i \in 1..n |-> ZERO],
     avoidLog   |-> <<>>]

EndSteerFrame ==
    /\ ran = SteerSystems
    /\ ran' = {}
    /\ tick' = FreshTick(Len(boids))
    /\ UNCHANGED <<boids, mouse, stance, avoidanceFactor, spawnEvents,
                   stanceEvents, cmds, hist, game, shots, pause>>

\* The boids the entity side leaves between frames: spawned at a pointer
\* position with zero velocity and steering, tagged Seek or Flee.
SpawnedBoid(p, t) ==
    [pos |-> p, vel |-> ZERO, steering |-> ZERO, tags |-> {"Boid", "Avoid", t}]

\* The boids alive at the last Evade transition hold Flee (the first k, in
\* spawn order), the ones spawned since hold Seek.
Populations ==
    UNION { { [i \in 1..n |->
                  SpawnedBoid(pos[i], IF i <= k THEN "Flee" ELSE "Seek")]
              : pos \in [1..n -> Points], k \in 0..n }
            : n \in 0..MaxBoids }

SteerInit ==
    /\ boids \in Populations
    /\ mouse \in Points
    /\ stance = IF \E i \in Entities : "Flee" \in boids[i].tags
                THEN "Evade" ELSE "Follow"
    /\ avoidanceFactor = BOID_AVOIDANCE_FACTOR
    /\ spawnEvents = <<>>
    /\ stanceEvents = <<>>
    /\ cmds = NoCommands
    /\ ran = {}
    /\ hist = [toggles |-> 0, pressPop |-> 0,
               sent |-> [i \in Entities |-> boids[i].pos]]
    /\ tick = FreshTick(Len(boids))
    /\ game = NoGame
    /\ shots = NoShots
    /\ pause = NoPause

SteerNext ==
    \/ seek_system
    \/ wander_system
    \/ flee_system
    \/ avoidance_system
    \/ movement_system
    \/ input_avoidance_system
    \/ EndSteerFrame

\* The steering side of the BoidPlugin, over every population of boids.
SpecSteer == SteerInit /\ [][SteerNext]_vars

(***************************************************************************)
(* The Boid of game.rs: one entity spawned at startup, whose steering is   *)
(* kept in tenths of a unit; wander_boid and move_boid run once a frame,   *)
(* in either order.                                                        *)
(***************************************************************************)
WANDER_RADIUS == 10

GameScale == Scale \div 10

\* Vec2::new(angle.cos() * radius, angle.sin() * radius), by quarter turns.
WanderOffset(turns) ==
    LET r == WANDER_RADIUS * GameScale
    IN  CASE turns = 0 -> Vec(r, 0)
          [] turns = 1 -> Vec(0, r)
          [] turns = 2 -> Vec(-r, 0)
          [] OTHER     -> Vec(0, -r)

\* Boid::wander: self.steering += offset;
\*               self.steering = self.steering.normalize() * radius;
BoidWander(steering, turns) ==
    ScaleDiv(Normalize(VAdd(steering, WanderOffset(turns))),
             WANDER_RADIUS * GameScale, Scale)

\* Boid::seek: self.steering = desired.normalize() * speed - current_velocity
BoidSeek(steering, current_position, current_velocity, target) ==
    LET desired == VSub(target, current_position)
        velocity == ScaleDiv(Normalize(desired), 10 * GameScale, Scale)
    IN  VSub(velocity, current_velocity)

wander_boid ==
    /\ NotRun("wander_boid")
    /\ \E turns \in QuarterTurns :
          game' = [game EXCEPT !.steering = BoidWander(game.steering, turns),
                               !.prev = game.steering,
                               !.out = WanderOffset(turns)]
    /\ Run("wander_boid")
    /\ UNCHANGED <<boids, mouse, stance, avoidanceFactor, spawnEvents,
                   stanceEvents, cmds, hist, tick, shots, pause>>

move_boid ==
    /\ NotRun("move_boid")
    /\ game' = [game EXCEPT !.velocity = VAdd(@, game.steering)]
    /\ Run("move_boid")
    /\ UNCHANGED <<boids, mouse, stance, avoidanceFactor, spawnEvents,
                   stanceEvents, cmds, hist, tick, shots, pause>>

EndGameFrame ==
    /\ ran = {"wander_boid", "move_boid"}
    /\ game.frames < MaxGameFrames
    /\ ran' = {}
    /\ game' = [game EXCEPT !.frames = @ + 1]
    /\ UNCHANGED <<boids, mouse, stance, avoidanceFactor, spawnEvents,
                   stanceEvents, cmds, hist, tick, shots, pause>>

GameNext ==
    \/ wander_boid
    \/ move_boid
    \/ EndGameFrame

\* game.rs after spawn_boid: one Boid, steering and LinearVelocity default.
SpecGame == Init /\ [][GameNext]_vars

(***************************************************************************)
(* Properties of the stance tags.                                          *)
(***************************************************************************)
HoldsOnly(i, tag, other) ==
    tag \in boids[i].tags /\ other \notin boids[i].tags

\* Between frames with every StanceChanged event read.
Quiescent == ran = {} /\ stanceEvents = <<>>

\* Between frames the entity side is in one of the populations the
\* steering side starts from.
LifecycleWithinPopulations == ran = {} => boids \in Populations

\* C1: whatever spawn and stance-change signals arrived, and in whatever
\* order the systems ran, every Boid entity holds exactly one of Seek and
\* Flee (never both, never neither) once the commands have been applied,
\* and in every state before that.
C1_ExactlyOneStanceTag ==
    \A i \in Entities :
        ("Seek" \in boids[i].tags) # ("Flee" \in boids[i].tags)

\* Two boids live after a stance transition to Evade was applied: one was
\* retagged by behaviour_system, the other spawned by spawn_system.
C1_Witness ==
    /\ ran = {}
    /\ Len(boids) = 2
    /\ stance = "Evade"
    /\ HoldsOnly(1, "Flee", "Seek")

\* C2: with no stance-change signal pending (and the frame's commands
\* applied), the tags of every boid match PlayerStance: Seek and not Flee
\* under Follow, Flee and not Seek under Evade.
C2_TagsMatchStance ==
    Quiescent =>
        \A i \in Entities :
            IF stance = "Follow" THEN HoldsOnly(i, "Seek", "Flee")
                                 ELSE HoldsOnly(i, "Flee", "Seek")

\* C3: after an odd number of toggle presses the stance is Evade and every
\* boid that was alive at the last press holds Flee and not Seek; after an
\* even number the stance is Follow again and every boid holds Seek and not
\* Flee, as at the start.
C3_TwoTogglesRestore ==
    Quiescent =>
        IF hist.toggles = 0
        THEN /\ stance = "Follow"
             /\ \A i \in Entities : HoldsOnly(i, "Seek", "Flee")
        ELSE /\ stance = "Evade"
             /\ \A i \in 1..hist.pressPop : HoldsOnly(i, "Flee", "Seek")

(***************************************************************************)
(* Properties of the steering pipeline.                                    *)
(***************************************************************************)
\* What the four contributors added to boid i in the current frame.
SumContrib(i) ==
    VAdd(VAdd(VAdd(tick.contrib["seek_system"][i],
                   tick.contrib["wander_system"][i]),
              tick.contrib["flee_system"][i]),
         tick.contrib["avoidance_system"][i])

Moved == "movement_system" \in ran

\* C4: in every frame the four contributors have completed when
\* movement_system runs; movement_system integrates exactly what they wrote
\* in that frame and leaves every accumulator at zero, and it is zero again
\* when the next frame starts: nothing carries over, nothing is dropped.
C4_ContributorsBeforeIntegrator ==
    /\ Moved => Contributors \subseteq ran
    /\ Moved => \A i \in Entities :
                    /\ tick.integrated[i] = SumContrib(i)
                    /\ boids[i].steering = ZERO
    /\ ran = {} => \A i \in Entities : boids[i].steering = ZERO

\* movement_system has integrated a non-zero sum of two contributions.
C4_Witness ==
    /\ Moved
    /\ \E i \in Entities :
          /\ tick.contrib["seek_system"][i] # ZERO
          /\ tick.contrib["avoidance_system"][i] # ZERO
          /\ tick.integrated[i] # ZERO
          /\ boids[i].steering = ZERO

\* C5: a behaviour contributor only adds its output to the accumulator:
\* after Boid::wander the steering is the old steering plus the offset it
\* drew, neither overwritten nor rescaled.
C5_ContributorOnlyAdds ==
    "wander_boid" \in ran => game.steering = VAdd(game.prev, game.out)

\* The velocity before the clamp, as movement_system computes it.
Unclamped(i) ==
    VAdd(tick.oldVel[i],
         VSub(SteerForce(tick.integrated[i]), tick.oldVel[i]))

\* C6 as stated: the new velocity is the clamped sum of the old velocity and
\* the scaled steering.
C6_VelocityIsOldPlusSteering ==
    Moved => \A i \in Entities :
                 boids[i].vel =
                     ClampLengthMax(VAdd(tick.oldVel[i],
                                         SteerForce(tick.integrated[i])),
                                    BOID_SPEED)

\* C6 amended: the delta movement_system adds is the scaled steering minus
\* the old velocity, so for a finite old velocity the new velocity is the
\* clamped scaled steering alone, whatever the old velocity was; a NaN old
\* velocity stays NaN.
C6_VelocityIsClampedSteering ==
    Moved => \A i \in Entities :
                 IF tick.oldVel[i].nan
                 THEN boids[i].vel.nan
                 ELSE boids[i].vel =
                          ClampLengthMax(SteerForce(tick.integrated[i]),
                                         BOID_SPEED)

\* movement_system ran for a boid that was moving and is steered elsewhere.
C6_Witness ==
    /\ Moved
    /\ \E i \in Entities :
          /\ ~tick.oldVel[i].nan
          /\ tick.oldVel[i] # ZERO
          /\ ~tick.integrated[i].nan
          /\ SteerForce(tick.integrated[i]) # tick.oldVel[i]
          /\ SteerForce(tick.integrated[i]) # ZERO

\* c points the way u does: no component changes sign, and c is parallel to
\* u up to the rounding of its two components.
SameDirection(c, u) ==
    /\ Sgn(c.x) \in {0, Sgn(u.x)}
    /\ Sgn(c.y) \in {0, Sgn(u.y)}
    /\ Abs(c.x * u.y - c.y * u.x) <= Abs(u.x) + Abs(u.y)

\* C7: after movement_system, for a finite accumulated steering, the
\* velocity is finite, its length is at most BOID_SPEED, it points the way
\* the unclamped velocity does, and a velocity within the cap is unchanged.
C7_SpeedCapped ==
    Moved => \A i \in Entities :
                 ~tick.integrated[i].nan =>
                     /\ ~boids[i].vel.nan
                     /\ ~Unclamped(i).nan
                     /\ LengthSquared(boids[i].vel) <= BOID_SPEED * BOID_SPEED
                     /\ SameDirection(boids[i].vel, Unclamped(i))
                     /\ LengthSquared(Unclamped(i)) <= BOID_SPEED * BOID_SPEED
                            => boids[i].vel = Unclamped(i)

\* The cap was applied to a velocity with two non-zero components.
C7_Witness ==
    /\ Moved
    /\ \E i \in Entities :
          /\ ~tick.integrated[i].nan
          /\ LengthSquared(Unclamped(i)) > BOID_SPEED * BOID_SPEED
          /\ Unclamped(i).x # 0
          /\ Unclamped(i).y # 0
          /\ boids[i].vel # Unclamped(i)

Avoided == "avoidance_system" \in ran

\* The entries of the frame's avoidance log for the pair {a, b}.
LogOf(a, b) ==
    { k \in DOMAIN tick.avoidLog :
          {tick.avoidLog[k].a, tick.avoidLog[k].b} = {a, b} }

RECURSIVE VSum(_, _)
VSum(f, n) == IF n = 0 THEN ZERO ELSE VAdd(VSum(f, n - 1), f[n])

\* C8: one run of avoidance_system processes every unordered pair of
\* Avoid-tagged boids exactly once; for a pair at distinct positions the two
\* forces are finite and exact negations of each other; and when all
\* positions are distinct the avoidance contributions of the frame sum to
\* the zero vector.
C8_AvoidanceAntisymmetric ==
    Avoided =>
        /\ \A a, b \in With("Avoid") :
               a < b =>
                   /\ Cardinality(LogOf(a, b)) = 1
                   /\ boids[a].pos # boids[b].pos =>
                          \A k \in LogOf(a, b) :
                              /\ ~tick.avoidLog[k].fa.nan
                              /\ tick.avoidLog[k].fb =
                                     Vec(-tick.avoidLog[k].fa.x,
                                         -tick.avoidLog[k].fa.y)
        /\ \A k \in DOMAIN tick.avoidLog :
               tick.avoidLog[k].a < tick.avoidLog[k].b
        /\ (\A a, b \in Entities : a # b => boids[a].pos # boids[b].pos) =>
               VSum(tick.contrib["avoidance_system"], Len(boids)) = ZERO

\* avoidance_system pushed two boids at distinct positions apart.
C8_Witness ==
    /\ Avoided
    /\ \E k \in DOMAIN tick.avoidLog :
          /\ ~tick.avoidLog[k].fa.nan
          /\ tick.avoidLog[k].fa # ZERO
          /\ tick.contrib["avoidance_system"][tick.avoidLog[k].a] # ZERO

\* C9: two Avoid-tagged boids at the same position contribute the zero
\* vector to each other, and no accumulator or velocity is ever NaN.
C9_NoNaN ==
    /\ \A i \in Entities : ~boids[i].steering.nan /\ ~boids[i].vel.nan
    /\ \A k \in DOMAIN tick.avoidLog :
           boids[tick.avoidLog[k].a].pos = boids[tick.avoidLog[k].b].pos =>
               tick.avoidLog[k].fa = ZERO /\ tick.avoidLog[k].fb = ZERO

\* C10: AvoidanceFactor stays within [0, MAX_AVOIDANCE] whatever scroll
\* signals arrive, of either sign, several in one frame.
C10_AvoidanceFactorInRange ==
    0 <= avoidanceFactor /\ avoidanceFactor <= MAX_AVOIDANCE

\* input_avoidance_system has scrolled the factor down to its lower limit.
C10_Witness ==
    "input_avoidance_system" \in ran /\ avoidanceFactor = 0

(***************************************************************************)
(* The BulletsPlugin: shooting (src/src/bullets.rs, src/src/input.rs).     *)
(***************************************************************************)
BULLET_SPEED == 500

MaxShots == 2

\* Velocities movement_system leaves a boid with: at rest, and seeking from
\* (0, 0) towards (120, 160).
Velocities == { ZERO, Vec(112, 150) }

\* velocity.linvel.normalize() * BOID_SIZE * 2, in world units.
BulletOffset(linvel) ==
    LET n == Normalize(linvel)
    IN  IF n.nan THEN NaNVec
        ELSE Vec(TDiv(n.x * BOID_SIZE * 2, Scale), TDiv(n.y * BOID_SIZE * 2, Scale))

\* velocity.linvel.normalize() * BULLET_SPEED, in world units.
BulletVelocity(linvel) ==
    LET n == Normalize(linvel)
    IN  IF n.nan THEN NaNVec
        ELSE Vec(TDiv(n.x * BULLET_SPEED, Scale), TDiv(n.y * BULLET_SPEED, Scale))

\* The BulletBundle shoot_system spawns for boid i; by and shot record the
\* boid and the Shoot event it was spawned for.
BulletBundle(i, shot) ==
    [pos |-> VAdd(OfPoint(boids[i].pos), BulletOffset(boids[i].vel)),
     vel |-> BulletVelocity(boids[i].vel),
     by |-> i, shot |-> shot]

\* The inner loop of shoot_system: one spawn per boid of the query.
BulletsOfShot(shot) == [i \in Entities |-> BulletBundle(i, shot)]

RECURSIVE BulletsOfShots(_)
BulletsOfShots(events) ==
    IF events = <<>> THEN <<>>
    ELSE BulletsOfShot(Head(events)) \o BulletsOfShots(Tail(events))

\* The left button sends one Shoot event; shot numbers the events sent.
input_shooting_system ==
    /\ NotRun("input_shooting_system")
    /\ \E just_pressed \in BOOLEAN :
          /\ just_pressed => shots.sent < MaxShots
          /\ shots' = IF just_pressed
                      THEN [shots EXCEPT
                               !.shootEvents = Append(@, shots.sent + 1),
                               !.sent = @ + 1]
                      ELSE shots
    /\ Run("input_shooting_system")
    /\ UNCHANGED <<boids, mouse, stance, avoidanceFactor, spawnEvents,
                   stanceEvents, cmds, hist, tick, game, pause>>

shoot_system ==
    /\ NotRun("shoot_system")
    /\ shots' = [shots EXCEPT !.cmds = @ \o BulletsOfShots(shots.shootEvents),
                              !.shootEvents = <<>>]
    /\ Run("shoot_system")
    /\ UNCHANGED <<boids, mouse, stance, avoidanceFactor, spawnEvents,
                   stanceEvents, cmds, hist, tick, game, pause>>

ShootSystems == {"input_shooting_system", "shoot_system"}

\* The end of the stage: the queued bullets are spawned.
EndShootFrame ==
    /\ ran = ShootSystems
    /\ shots' = [shots EXCEPT !.bullets = @ \o shots.cmds, !.cmds = <<>>]
    /\ ran' = {}
    /\ UNCHANGED <<boids, mouse, stance, avoidanceFactor, spawnEvents,
                   stanceEvents, cmds, hist, tick, game, pause>>

MovingBoid(p, v) == [NewBoid(p) EXCEPT !.vel = v]

\* Up to MaxBoids boids, each where it was spawned or moved, at rest or not.
ShootPopulations ==
    UNION { [1..n -> { MovingBoid(p, v) : p \in Points, v \in Velocities }] :
            n \in 0..MaxBoids }

ShootInit ==
    /\ boids \in ShootPopulations
    /\ mouse = [x |-> 0, y |-> 0]
    /\ stance = "Follow"
    /\ avoidanceFactor = BOID_AVOIDANCE_FACTOR
    /\ spawnEvents = <<>>
    /\ stanceEvents = <<>>
    /\ cmds = NoCommands
    /\ ran = {}
    /\ hist = [toggles |-> 0, pressPop |-> 0,
               sent |-> [i \in Entities |-> boids[i].pos]]
    /\ tick = NoTick
    /\ game = NoGame
    /\ shots = NoShots
    /\ pause = NoPause

ShootNext ==
    \/ input_shooting_system
    \/ shoot_system
    \/ EndShootFrame

\* The shooting side of the BulletsPlugin over the boids of a frame.
SpecShoot == ShootInit /\ [][ShootNext]_vars

(***************************************************************************)
(* The BulletsPlugin: collisions (src/src/bullets.rs 72-103).              *)
(***************************************************************************)
MaxCollisions == 2

\* Entity ids: the boids in spawn order, then the bullets; 0 is an entity
\* that is neither (no Boid and no Bullet component).
WorldEntities == 0..(Len(boids) + Len(shots.bullets))

\* boids.get(e).is_ok() and bullets.get(e).is_ok()
IsBoid(e) == e \in 1..Len(boids)

IsBullet(e) == e \in (Len(boids) + 1)..(Len(boids) + Len(shots.bullets))

\* rapier's CollisionEvent: Started(e1, e2, _) or Stopped(e1, e2, _).
CollisionEvents ==
    [started : BOOLEAN, e1 : WorldEntities, e2 : WorldEntities]

CollisionBatches ==
    UNION { [1..n -> CollisionEvents] : n \in 0..MaxCollisions }

\* A match that also sends BoidShot for a pair of boids.
BoidShotsAlsoForBoidPairs(event, from) ==
    IF ~event.started THEN <<>>
    ELSE (IF IsBoid(event.e1) /\ (IsBullet(event.e2) \/ IsBoid(event.e2))
          THEN <<[boid |-> event.e1, bullet |-> event.e2, from |-> from]>>
          ELSE <<>>)
         \o
         (IF IsBullet(event.e1) /\ IsBoid(event.e2)
          THEN <<[boid |-> event.e2, bullet |-> event.e1, from |-> from]>>
          ELSE <<>>)

\* The body of the loop: the BoidShot events sent for one collision event;
\* from records the place of the collision event in the batch read.
BoidShotsOf(event, from) ==
    IF ~event.started THEN <<>>
    ELSE (IF IsBoid(event.e1) /\ IsBullet(event.e2)
          THEN <<[boid |-> event.e1, bullet |-> event.e2, from |-> from]>>
          ELSE <<>>)
         \o
         (IF IsBullet(event.e1) /\ IsBoid(event.e2)
          THEN <<[boid |-> event.e2, bullet |-> event.e1, from |-> from]>>
          ELSE <<>>)

RECURSIVE ReadCollisions(_, _)
ReadCollisions(batch, from) ==
    IF from > Len(batch) THEN <<>>
    ELSE BoidShotsOf(batch[from], from) \o ReadCollisions(batch, from + 1)

collision_system ==
    /\ NotRun("collision_system")
    /\ \E batch \in CollisionBatches :
          shots' = [shots EXCEPT !.collisions = batch,
                                 !.boidShot = ReadCollisions(batch, 1)]
    /\ Run("collision_system")
    /\ UNCHANGED <<boids, mouse, stance, avoidanceFactor, spawnEvents,
                   stanceEvents, cmds, hist, tick, game, pause>>

\* The collision events of the frame are dropped; BoidShot has no reader.
EndCollideFrame ==
    /\ ran = {"collision_system"}
    /\ shots' = [shots EXCEPT !.collisions = <<>>, !.boidShot = <<>>]
    /\ ran' = {}
    /\ UNCHANGED <<boids, mouse, stance, avoidanceFactor, spawnEvents,
                   stanceEvents, cmds, hist, tick, game, pause>>

\* Up to MaxBoids moving boids, before or after the bullets of one Shoot.
CollideInit ==
    /\ \E n \in 0..MaxBoids :
          boids = [i \in 1..n |-> MovingBoid([x |-> 0, y |-> 0], Vec(112, 150))]
    /\ mouse = [x |-> 0, y |-> 0]
    /\ stance = "Follow"
    /\ avoidanceFactor = BOID_AVOIDANCE_FACTOR
    /\ spawnEvents = <<>>
    /\ stanceEvents = <<>>
    /\ cmds = NoCommands
    /\ ran = {}
    /\ hist = [toggles |-> 0, pressPop |-> 0,
               sent |-> [i \in Entities |-> boids[i].pos]]
    /\ tick = NoTick
    /\ game = NoGame
    /\ \E shot \in BOOLEAN :
          shots = IF shot
                  THEN [NoShots EXCEPT !.sent = 1, !.bullets = BulletsOfShot(1)]
                  ELSE NoShots
    /\ pause = NoPause

CollideNext ==
    \/ collision_system
    \/ EndCollideFrame

\* collision_system over the collision events of a world of boids and bullets.
SpecCollide == CollideInit /\ [][CollideNext]_vars

(***************************************************************************)
(* seek_system alone: one boid holding Seek, and the pointer.              *)
(***************************************************************************)
\* Positions of the boid and of the pointer: on, inside and outside the
\* slowing radius of each other.
SeekGrid == { [x |-> a, y |-> b] : a \in {-100, 0, 30, 50, 200},
                                   b \in {-80, 0, 40} }

SeekInit ==
    /\ \E p \in SeekGrid : boids = <<SpawnedBoid(p, "Seek")>>
    /\ mouse \in SeekGrid
    /\ stance = "Follow"
    /\ avoidanceFactor = BOID_AVOIDANCE_FACTOR
    /\ spawnEvents = <<>>
    /\ stanceEvents = <<>>
    /\ cmds = NoCommands
    /\ ran = {}
    /\ hist = [toggles |-> 0, pressPop |-> 0,
               sent |-> [i \in Entities |-> boids[i].pos]]
    /\ tick = FreshTick(Len(boids))
    /\ game = NoGame
    /\ shots = NoShots
    /\ pause = NoPause

SeekNext == seek_system

\* One run of seek_system for every place of one boid and the pointer.
SpecSeek == SeekInit /\ [][SeekNext]_vars

(***************************************************************************)
(* The PausePlugin (src/src/plugins/dev_tools/pausing.rs).                 *)
(* pause.elapsed counts the 1/60 s steps the physics clock was advanced    *)
(* by hand; presses and before are history: the parity of the presses of   *)
(* the pause key, and elapsed at the start of the frame.                   *)
(***************************************************************************)
MaxSteps == 3

\* The keys just pressed in a frame.
PauseKeys == SUBSET {"KeyP", "Enter"}

\* A pause key that only ever pauses.
AlwaysPaused(current_state) == "Paused"

\* The match of pause_button.
NewPauseState(current_state) ==
    IF current_state = "Paused" THEN "Running" ELSE "Paused"

\* OnExit(Paused) unpauses and OnEnter(Paused) pauses Time<Physics>.
ClockPausedAfter(exited, entered, paused) ==
    IF exited = entered THEN paused ELSE entered = "Paused"

\* The start of a frame: the keys of the frame are known, and the
\* StateTransition schedule applies the queued NextState with its
\* OnExit and OnEnter systems, before Update.
state_transition ==
    /\ ran = {}
    /\ \E keys \in PauseKeys :
          /\ "Enter" \in keys => pause.elapsed < MaxSteps
          /\ LET entered == IF pause.next = "None" THEN pause.state
                                                   ELSE pause.next
             IN  pause' = [pause EXCEPT
                              !.keys = keys,
                              !.state = entered,
                              !.next = "None",
                              !.clockPaused =
                                  ClockPausedAfter(pause.state, entered, @),
                              !.before = pause.elapsed]
    /\ Run("state_transition")
    /\ UNCHANGED <<boids, mouse, stance, avoidanceFactor, spawnEvents,
                   stanceEvents, cmds, hist, tick, game, shots>>

pause_button ==
    /\ "state_transition" \in ran
    /\ NotRun("pause_button")
    /\ pause' = IF "KeyP" \in pause.keys
                THEN [pause EXCEPT !.next = NewPauseState(pause.state),
                                   !.presses = (@ + 1) % 2]
                ELSE pause
    /\ Run("pause_button")
    /\ UNCHANGED <<boids, mouse, stance, avoidanceFactor, spawnEvents,
                   stanceEvents, cmds, hist, tick, game, shots>>

\* run_if(in_state(PauseState::Paused))
StepButtonRuns == pause.state = "Paused"

step_button ==
    /\ "state_transition" \in ran
    /\ NotRun("step_button")
    /\ pause' = IF StepButtonRuns /\ "Enter" \in pause.keys
                THEN [pause EXCEPT !.elapsed = @ + 1]
                ELSE pause
    /\ Run("step_button")
    /\ UNCHANGED <<boids, mouse, stance, avoidanceFactor, spawnEvents,
                   stanceEvents, cmds, hist, tick, game, shots>>

PauseSystems == {"state_transition", "pause_button", "step_button"}

EndPauseFrame ==
    /\ ran = PauseSystems
    /\ ran' = {}
    /\ UNCHANGED <<boids, mouse, stance, avoidanceFactor, spawnEvents,
                   stanceEvents, cmds, hist, tick, game, shots, pause>>

PauseNext ==
    \/ state_transition
    \/ pause_button
    \/ step_button
    \/ EndPauseFrame

\* The PausePlugin from the start of the app.
SpecPause == Init /\ [][PauseNext]_vars

(***************************************************************************)
(* Properties of the events and of the entities they create.               *)
(***************************************************************************)
\* C11: at the start of every frame, whatever order the systems of the
\* earlier frames ran in, no BoidSpawned and no Shoot event is left unread:
\* each was read by its consumer in the frame that sent it.
C11_SignalsConsumedSameTick ==
    ran = {} => spawnEvents = <<>> /\ shots.shootEvents = <<>>

SpawnedPositions == [i \in Entities |-> boids[i].pos]

\* C12: every BoidSpawned event sent with position p yields exactly one boid
\* at p with zero velocity and zero steering, in the order sent, and the
\* boids spawned before keep their place: the boids, the queued spawns and
\* the unread events are together exactly the events sent.
C12_OneBoidPerSpawnSignal ==
    /\ SpawnedPositions \o cmds.spawn \o spawnEvents = hist.sent
    /\ \A i \in Entities :
          /\ boids[i].vel = ZERO
          /\ boids[i].steering = ZERO
          /\ "Boid" \in boids[i].tags

\* Two spawn events with different positions have both been consumed and
\* their boids spawned.
C12_Witness ==
    /\ ran = {}
    /\ Len(boids) = 2
    /\ boids[1].pos # boids[2].pos
    /\ hist.sent = SpawnedPositions

ShotsRead == { n \in 1..shots.sent : \A k \in DOMAIN shots.shootEvents :
                                         shots.shootEvents[k] # n }

\* C14: every Shoot event read creates exactly one bullet per boid, and
\* every bullet is well defined: its position and velocity are numbers, and
\* the bullet of a boid at rest sits at the boid with zero velocity.
C14_BulletsWellDefined ==
    LET all == shots.bullets \o shots.cmds
    IN  /\ \A n \in ShotsRead, i \in Entities :
              Cardinality({ k \in DOMAIN all :
                              all[k].by = i /\ all[k].shot = n }) = 1
        /\ \A k \in DOMAIN all :
              /\ ~all[k].pos.nan
              /\ ~all[k].vel.nan
              /\ boids[all[k].by].vel = ZERO =>
                     /\ all[k].pos = OfPoint(boids[all[k].by].pos)
                     /\ all[k].vel = ZERO

BoidAndBullet(event) ==
    \/ IsBoid(event.e1) /\ IsBullet(event.e2)
    \/ IsBullet(event.e1) /\ IsBoid(event.e2)

\* C13: a run of collision_system sends, for every Started event whose two
\* entities are a Boid and a Bullet in either order, exactly one BoidShot
\* naming the Boid entity as boid and the Bullet entity as bullet, and sends
\* none for a Stopped event or for any other pair.
C13_OneBoidShotPerHit ==
    "collision_system" \in ran =>
        \A n \in DOMAIN shots.collisions :
            LET event == shots.collisions[n]
                sent == { k \in DOMAIN shots.boidShot : shots.boidShot[k].from = n }
            IN  IF event.started /\ BoidAndBullet(event)
                THEN /\ Cardinality(sent) = 1
                     /\ \A k \in sent :
                           /\ IsBoid(shots.boidShot[k].boid)
                           /\ IsBullet(shots.boidShot[k].bullet)
                           /\ {shots.boidShot[k].boid, shots.boidShot[k].bullet}
                                  = {event.e1, event.e2}
                ELSE sent = {}

\* One run read a Started event of a bullet and a boid, bullet first, and a
\* Started event of two boids, and sent a single BoidShot.
C13_Witness ==
    /\ "collision_system" \in ran
    /\ Len(shots.boidShot) = 1
    /\ \E n, m \in DOMAIN shots.collisions :
          /\ shots.collisions[n].started
          /\ IsBullet(shots.collisions[n].e1) /\ IsBoid(shots.collisions[n].e2)
          /\ shots.collisions[m].started
          /\ IsBoid(shots.collisions[m].e1) /\ IsBoid(shots.collisions[m].e2)

\* c is a / |u| in 1/Scale units, rounded toward zero.
UnitComponent(c, a, u) ==
    /\ Sgn(c) \in {0, Sgn(a)}
    /\ c * c * LengthSquared(u) <= a * a * Scale * Scale
    /\ a * a * Scale * Scale < (Abs(c) + 1) * (Abs(c) + 1) * LengthSquared(u)

\* c is a / BOID_SLOWING_RADIUS in 1/Scale units, within three roundings.
LinearComponent(c, a) ==
    /\ Sgn(c) \in {0, Sgn(a)}
    /\ Abs(c * BOID_SLOWING_RADIUS - a * Scale) <= 3 * BOID_SLOWING_RADIUS

\* C15: for a boid holding only Seek, with d the distance to the pointer
\* and R the slowing radius, the value seek_system adds to the steering is
\* the unit vector towards the pointer if d > R, that unit vector times d / R
\* (the path divided by R) if 0 < d <= R, and zero if d = 0; from (0, 0) the
\* pointer at (200, 0) gives (1, 0) and the pointer at (50, 0) gives (0.5, 0).
C15_SeekContribution ==
    "seek_system" \in ran =>
        LET out == boids[1].steering
            path == VSub(OfPoint(mouse), OfPoint(boids[1].pos))
            d2 == LengthSquared(path)
            R2 == BOID_SLOWING_RADIUS * BOID_SLOWING_RADIUS
        IN  /\ ~out.nan
            /\ out = tick.contrib["seek_system"][1]
            /\ d2 > R2 => UnitComponent(out.x, path.x, path)
                          /\ UnitComponent(out.y, path.y, path)
            /\ 0 < d2 /\ d2 <= R2 => LinearComponent(out.x, path.x)
                                     /\ LinearComponent(out.y, path.y)
            /\ d2 = 0 => out = ZERO
            /\ boids[1].pos = [x |-> 0, y |-> 0] /\ mouse = [x |-> 200, y |-> 0]
                   => out = Vec(Scale, 0)
            /\ boids[1].pos = [x |-> 0, y |-> 0] /\ mouse = [x |-> 50, y |-> 0]
                   => out = Vec(Scale \div 2, 0)

\* seek_system has run for the boid at (0, 0) and the pointer at (50, 0),
\* inside the slowing radius, and added half a unit.
C15_Witness ==
    /\ "seek_system" \in ran
    /\ boids[1].pos = [x |-> 0, y |-> 0]
    /\ mouse = [x |-> 50, y |-> 0]
    /\ boids[1].steering = Vec(Scale \div 2, 0)

\* The PauseState once the queued transition, if any, has been applied.
PauseStateAfterTransition ==
    IF pause.next = "None" THEN pause.state ELSE pause.next

\* step_button has had its turn in the frame pause.keys belongs to.
StepButtonDone == "step_button" \in ran \/ ran = {}

\* C16: PauseState starts as Running and every press of the pause key flips
\* it (it is Paused, once the transition is applied, exactly after an odd
\* number of presses); the physics clock is paused exactly when PauseState
\* is Paused; and in a frame the step key advances the clock by one step of
\* 1/60 s if PauseState is Paused, and by nothing if it is Running.
C16_PauseAndStep ==
    /\ PauseStateAfterTransition = "Paused" <=> pause.presses = 1
    /\ pause.clockPaused <=> pause.state = "Paused"
    /\ pause.elapsed - pause.before =
           IF /\ StepButtonDone
              /\ "Enter" \in pause.keys
              /\ pause.state = "Paused"
           THEN 1 ELSE 0

\* Paused by one press of the pause key, the step key has advanced the
\* stopped physics clock by one step.
C16_Witness ==
    /\ "step_button" \in ran
    /\ pause.state = "Paused"
    /\ pause.clockPaused
    /\ pause.presses = 1
    /\ pause.elapsed = pause.before + 1

====
